---- MODULE Spec2Model ----
(***************************************************************************)
(* Model of the Simply task runner (src/lib/Simply.js).                    *)
(*                                                                         *)
(* The runner scans a two-level directory tree (group/member), runs the    *)
(* executable members of the requested groups one after the other with    *)
(* execSync, and aggregates and installs the dependencies declared by the  *)
(* config files found in the tree.                                         *)
(*                                                                         *)
(* The directory scanner (./helper: getTasks, getConfig, scanTasksDir) is  *)
(* modelled from its description in spec.md section 4.1.                   *)
(***************************************************************************)
EXTENDS Integers, Sequences, FiniteSets, TLC

(* ----------------------------- bounds --------------------------------- *)

\* Most member files in the whole tree.
MaxFiles == 2

\* Longest batch of task names handed to run().
MaxBatch == 2

\* Most keys in one dependencies / devDependencies object of a config file.
MaxDeps == 1

\* Most directory removals and creations by other processes during one call.
MaxFsChanges == 1

(* --------------------------- small universes -------------------------- *)

GroupNames == {"build", "deploy"}

\* Names a caller may request: the groups plus a name that is never a group.
TaskNames == {<<g>> : g \in GroupNames} \cup {<<"nope">>}

\* File names that may appear inside a group directory.
FileNames == {"run", "setup.js", "deps.json", "notes.txt"}

Packages == {"x", "y"}

Versions == {"1.0.0", "2.0.0"}

\* What a child process can do: exit 0 with output, exit 0 silently, or
\* fail (non-zero exit or launch failure: execSync throws).
Outcomes == {"ok_output", "ok_silent", "fail"}

Null == [null |-> TRUE]

(* ------------------------------ helpers ------------------------------- *)

Range(s) == {s[n] : n \in 1..Len(s)}

NoDup(s) == \A m, n \in 1..Len(s) : m # n => s[m] # s[n]

\* Sequences over S without repetition, of length at most n.
SeqsNoDup(S, n) ==
  {s \in UNION {[1..k -> S] : k \in 0..n} : NoDup(s)}

(* ------------------------------ state --------------------------------- *)

VARIABLES
  directory,   \* this._directory, a path as a sequence of components
  config,      \* the constructor's config object, as lines 45-50 leave it
  dirs,        \* file system: the group directories, in enumeration order
  files,       \* file system: the file names of each group, in enumeration order
  fsChanges,   \* directory changes by other processes during the current call
  op,          \* the public method being executed
  pc,          \* position inside the call
  result,      \* how the last call ended: "none", "returned" or "raised"
  tasks,       \* run: the batch of task names
  i,           \* run: loop index into tasks
  item,        \* runTask: the entry _getTask returned, or Null
  items,       \* _execTask: the member entries scanTasksDir returned
  j,           \* _execTask: forEach index into items
  save,        \* install: the save flag
  cfgItems,    \* _getDependencies: the entries getConfig returned
  k,           \* _getDependencies: loop index into cfgItems
  deps,        \* the dependencies object, as its (key, version) pairs in key order
  n,           \* install: loop index into Object.keys(dependencies)
  procs,       \* history: every child process spawned by the call, with its status
  visits,      \* history: every _execItem call of the call, as (task index, member index)
  reads,       \* history: how each config entry read of the call ended
  declared,    \* history: per package, the versions given by each entry declaring it
  lastDev,     \* history: per package, its devDependencies version in the last such entry
  scans,       \* history: every directory scan of the call, and whether it met its directory
  log          \* history: what the call printed with console.log

vars ==
  <<directory, config, dirs, files, fsChanges, op, pc, result, tasks, i, item,
    items, j, save, cfgItems, k, deps, n, procs, visits, reads, declared, lastDev,
    scans, log>>

fsVars == <<dirs, files>>

runVars == <<tasks, i, item, items, j>>

installVars == <<save, cfgItems, k, deps, n>>

histVars == <<procs, visits, reads, declared, lastDev, scans, log>>

(* ------------------------- the directory scanner ---------------------- *)

\* path.extname of a member file name.
extname(f) ==
  CASE f = "run" -> ""
    [] f = "setup.js" -> "js"
    [] f = "deps.json" -> "json"
    [] f = "notes.txt" -> "txt"

extBinary == {"", "sh", "bat", "exe"}

extScript == {"js"}

extConfig == {"json"}

\* Classification of a member by its extension.
getType(f) ==
  IF extname(f) \in extBinary THEN "binary"
  ELSE IF extname(f) \in extScript THEN "script"
  ELSE IF extname(f) \in extConfig THEN "config"
  ELSE "other"

\* The group catalog: one entry per group directory, in enumeration order.
getTasks(dir) ==
  [m \in 1..Len(dirs) |->
     [path |-> <<dirs[m]>>, pathAbs |-> dir \o <<dirs[m]>>, type |-> "group"]]

\* The members of the group with relative path parent; empty when there is
\* no such group directory.
scanTasksDir(dir, parent) ==
  IF Len(parent) = 1 /\ parent[1] \in Range(dirs)
  THEN [m \in 1..Len(files[parent[1]]) |->
          [path |-> parent \o <<files[parent[1]][m]>>,
           pathAbs |-> dir \o parent \o <<files[parent[1]][m]>>,
           type |-> getType(files[parent[1]][m])]]
  ELSE <<>>

RECURSIVE ConfigOf(_, _)
ConfigOf(dir, groups) ==
  IF groups = <<>> THEN <<>>
  ELSE SelectSeq(scanTasksDir(dir, <<Head(groups)>>), LAMBDA e : e.type = "config")
       \o ConfigOf(dir, Tail(groups))

\* The config entries of every group, group by group in enumeration order.
getConfig(dir) == ConfigOf(dir, dirs)

(* ------------------------------ Simply -------------------------------- *)

Cwd == "cwd"

\* The configuration objects the runner is constructed with.
Configs ==
  { Null,
    [rootDir |-> "srv", tasksDir |-> "jobs",
     extBinary |-> {"sh"}, extScript |-> {"js", "txt"}, extConfig |-> {"json"}] }

\* constructor, lines 45-50: the config object with every absent option set
\* to its default.
configured(cfg) ==
  IF cfg = Null
  THEN [rootDir |-> Cwd, tasksDir |-> "tasks",
        extBinary |-> extBinary, extScript |-> extScript, extConfig |-> extConfig]
  ELSE cfg

\* constructor: this._directory = path.join(rootDir || cwd, tasksDir || 'tasks')
constructor(cfg) ==
  IF cfg = Null THEN <<Cwd, "tasks">>
  ELSE <<cfg.rootDir, cfg.tasksDir>>

\* One directory scan by the helper, as the history keeps it.
Scan(kind, task, found) == [kind |-> kind, task |-> task, found |-> found]

\* A lookup that takes the first entry whatever the name (= for ===).
_getTaskFromAny(catalog, task) ==
  IF catalog = <<>> THEN Null ELSE Head(catalog)

\* A command that runs everything through the interpreter.
CommandAlwaysNode(it) ==
  IF it.type \in {"script", "binary"} THEN [prefix |-> "node ", path |-> it.pathAbs]
  ELSE Null

\* _getTask: the first catalog entry whose path equals the name, or Null.
RECURSIVE _getTaskFrom(_, _)
_getTaskFrom(catalog, task) ==
  IF catalog = <<>> THEN Null
  ELSE IF Head(catalog).path = task THEN Head(catalog)
  ELSE _getTaskFrom(Tail(catalog), task)

\* A lookup that keeps the entry it found last and scans only for another name.
_getTaskCached(task) ==
  IF item # Null /\ item.path = task THEN item
  ELSE _getTaskFrom(getTasks(directory), task)

_getTask(task) == _getTaskFrom(getTasks(directory), task)

\* A classification without the early return: whatever is not a script is
\* run as a program.
CommandOfAnything(it) ==
  IF it.type = "script" THEN [prefix |-> "node ", path |-> it.pathAbs]
  ELSE [prefix |-> "", path |-> it.pathAbs]

\* _execItem, lines 222-232: the command line of a member, Null when the
\* member is not executed.
Command(it) ==
  IF it.type = "script" THEN [prefix |-> "node ", path |-> it.pathAbs]
  ELSE IF it.type = "binary" THEN [prefix |-> "", path |-> it.pathAbs]
  ELSE Null

Event(ev, arg) == [ev |-> ev, arg |-> arg]

\* The batches run() is called with: sequences of task names, or nothing.
Batches ==
  {[given |-> TRUE, names |-> ts] : ts \in UNION {[1..m -> TaskNames] : m \in 0..MaxBatch}}
  \cup {[given |-> FALSE, names |-> <<>>]}

Idle == pc = "idle"

\* A public method is entered: nothing is printed or spawned yet.
StartCall(name) ==
  /\ Idle
  /\ op' = name
  /\ UNCHANGED <<directory, config, fsVars, fsChanges, item, items, j, cfgItems, k,
                 deps, n, procs, visits, reads, declared, lastDev>>

\* run(tasks), lines 68-73: the batch is taken, an empty batch is reported.
run(ts) ==
  /\ StartCall("run")
  /\ scans' = <<>>
  /\ tasks' = (IF ts.given THEN ts.names ELSE <<>>)
  /\ i' = 1
  /\ save' = FALSE
  /\ IF tasks' = <<>>
     THEN /\ log' = <<Event("NoTasks", <<>>)>>
          /\ pc' = "done"
          /\ result' = "returned"
     ELSE /\ log' = <<>>
          /\ pc' = "resolve"
          /\ result' = "none"

\* A direct call of runTask(task).
runTask(t) ==
  /\ StartCall("runTask")
  /\ scans' = <<>>
  /\ tasks' = <<t>>
  /\ i' = 1
  /\ save' = FALSE
  /\ log' = <<>>
  /\ pc' = "resolve"
  /\ result' = "none"

\* A loop that returns with its first runTask.
TaskReturnsAtOnce ==
  /\ i' = i + 1
  /\ pc' = "done"
  /\ result' = "returned"

\* runTask returns: the loop of run (lines 74-76) goes on to the next name,
\* and run returns after the last one.
TaskReturns ==
  /\ i' = i + 1
  /\ IF i + 1 > Len(tasks)
     THEN pc' = "done" /\ result' = "returned"
     ELSE pc' = "resolve" /\ result' = result

\* runTask, lines 86-91: the name is looked up in a fresh group catalog.
Resolve ==
  /\ pc = "resolve"
  /\ item' = _getTask(tasks[i])
  /\ scans' = Append(scans, Scan("groups", i, TRUE))
  /\ IF item' = Null
     THEN /\ log' = Append(log, Event("TaskNotFound", tasks[i]))
          /\ TaskReturns
     ELSE /\ log' = Append(log, Event("TaskStarted", tasks[i]))
          /\ pc' = "scan_members"
          /\ UNCHANGED <<i, result>>
  /\ UNCHANGED <<directory, config, fsVars, fsChanges, op, tasks, items, j,
                 installVars, procs, visits, reads, declared, lastDev>>

\* A member scan that moves the runner into the group it scans.
ExecTaskDescends ==
  /\ pc = "scan_members"
  /\ items' = scanTasksDir(directory, item.path)
  /\ j' = 1
  /\ pc' = "exec_loop"
  /\ directory' = item.pathAbs
  /\ scans' = Append(scans, Scan("members", i, item.path[1] \in Range(dirs)))
  /\ UNCHANGED <<config, fsVars, fsChanges, op, result, tasks, i, item,
                 installVars, procs, visits, reads, declared, lastDev, log>>

\* A member scan whose failure on a missing group directory is let through.
ExecTaskUnguarded ==
  /\ pc = "scan_members"
  /\ items' = scanTasksDir(directory, item.path)
  /\ j' = 1
  /\ IF item.path[1] \in Range(dirs)
     THEN pc' = "exec_loop" /\ result' = result
     ELSE pc' = "done" /\ result' = "raised"
  /\ scans' = Append(scans, Scan("members", i, item.path[1] \in Range(dirs)))
  /\ UNCHANGED <<directory, config, fsVars, fsChanges, op, tasks, i, item,
                 installVars, procs, visits, reads, declared, lastDev, log>>

\* _execTask, line 206: the members of the group are scanned.
ExecTask ==
  /\ pc = "scan_members"
  /\ items' = scanTasksDir(directory, item.path)
  /\ j' = 1
  /\ pc' = "exec_loop"
  /\ scans' = Append(scans, Scan("members", i, item.path[1] \in Range(dirs)))
  /\ UNCHANGED <<directory, config, fsVars, fsChanges, op, result, tasks, i, item,
                 installVars, procs, visits, reads, declared, lastDev, log>>

\* A spawn that does not wait for the child (exec for execSync).
ExecItemAsync ==
  /\ pc = "exec_loop"
  /\ j <= Len(items)
  /\ visits' = Append(visits, <<i, j>>)
  /\ j' = j + 1
  /\ IF Command(items[j]) = Null
     THEN UNCHANGED <<procs, log>>
     ELSE /\ log' = Append(log, Event("ItemStarted", items[j].pathAbs))
          /\ procs' = Append(procs, [task |-> i, member |-> j,
                                     command |-> Command(items[j]),
                                     status |-> "running"])
  /\ UNCHANGED <<directory, config, fsVars, fsChanges, op, pc, result, tasks, i, item, items,
                 installVars, reads, declared,
                 lastDev, scans>>

\* _execItem, lines 218-237: a member that is neither script nor binary is
\* passed over; any other is announced and its process is spawned.
ExecItem ==
  /\ pc = "exec_loop"
  /\ j <= Len(items)
  /\ visits' = Append(visits, <<i, j>>)
  /\ IF Command(items[j]) = Null
     THEN /\ j' = j + 1
          /\ UNCHANGED <<pc, procs, log>>
     ELSE /\ log' = Append(log, Event("ItemStarted", items[j].pathAbs))
          /\ procs' = Append(procs, [task |-> i, member |-> j,
                                     command |-> Command(items[j]),
                                     status |-> "running"])
          /\ pc' = "wait_child"
          /\ j' = j
  /\ UNCHANGED <<directory, config, fsVars, fsChanges, op, result, tasks, i, item, items,
                 installVars, reads, declared,
                 lastDev, scans>>

\* An execSync without the try: a failure leaves _execItem as an exception.
execItemEndUncaught(o) ==
  CASE o = "ok_output" -> [raised |-> FALSE, report |-> <<"ItemOutput">>]
    [] o = "ok_silent" -> [raised |-> FALSE, report |-> <<>>]
    [] o = "fail" -> [raised |-> TRUE, report |-> <<>>]

\* An empty catch: a failure is swallowed without a line.
execItemEndSilentCatch(o) ==
  CASE o = "ok_output" -> [raised |-> FALSE, report |-> <<"ItemOutput">>]
    [] o = "ok_silent" -> [raised |-> FALSE, report |-> <<>>]
    [] o = "fail" -> [raised |-> FALSE, report |-> <<>>]

\* An output line printed whether or not the child wrote anything, and after
\* a failure as well.
execItemEndAlwaysPrints(o) ==
  CASE o = "ok_output" -> [raised |-> FALSE, report |-> <<"ItemOutput">>]
    [] o = "ok_silent" -> [raised |-> FALSE, report |-> <<"ItemOutput">>]
    [] o = "fail" -> [raised |-> FALSE, report |-> <<"ItemFailed", "ItemOutput">>]

\* _execItem, lines 237-244: what follows the end of the child process. The
\* output is printed when there is some; a failure is caught and printed.
execItemEnd(o) ==
  CASE o = "ok_output" -> [raised |-> FALSE, report |-> <<"ItemOutput">>]
    [] o = "ok_silent" -> [raised |-> FALSE, report |-> <<>>]
    [] o = "fail" -> [raised |-> FALSE, report |-> <<"ItemFailed">>]

Reports(evs, arg) == [m \in 1..Len(evs) |-> Event(evs[m], arg)]

SetLastStatus(ps, o) == [ps EXCEPT ![Len(ps)].status = o]

\* A loop that runs a failed member again.
ChildExitRetry(o) ==
  /\ pc = "wait_child"
  /\ procs' = SetLastStatus(procs, o)
  /\ log' = log \o Reports(execItemEnd(o).report, items[j].pathAbs)
  /\ pc' = "exec_loop"
  /\ j' = (IF o = "fail" THEN j ELSE j + 1)
  /\ UNCHANGED <<directory, config, fsVars, fsChanges, op, result, tasks, i, item, items,
                 installVars, visits, reads, declared,
                 lastDev, scans>>

\* execSync returns or throws: the child process has ended.
ChildExit(o) ==
  /\ pc = "wait_child"
  /\ procs' = SetLastStatus(procs, o)
  /\ log' = log \o Reports(execItemEnd(o).report, items[j].pathAbs)
  /\ IF execItemEnd(o).raised
     THEN pc' = "done" /\ result' = "raised" /\ j' = j
     ELSE pc' = "exec_loop" /\ result' = result /\ j' = j + 1
  /\ UNCHANGED <<directory, config, fsVars, fsChanges, op, tasks, i, item, items,
                 installVars, visits, reads, declared,
                 lastDev, scans>>

\* _execTask, line 207: forEach has passed the last member; runTask returns.
ExecTaskDone ==
  /\ pc = "exec_loop"
  /\ j > Len(items)
  /\ TaskReturns
  /\ UNCHANGED <<directory, config, fsVars, fsChanges, op, tasks, item, items, j,
                 installVars, histVars>>

\* A loop that runs one index past the last catalog entry (<= for <).
listOffByOne ==
  /\ StartCall("list")
  /\ scans' = <<Scan("groups", 0, TRUE)>>
  /\ tasks' = <<>>
  /\ i' = 1
  /\ save' = FALSE
  /\ log' = <<Event("ListHeader", <<>>)>>
            \o [m \in 1..Len(getTasks(directory)) |->
                  Event("ListEntry", getTasks(directory)[m].path)]
  /\ pc' = "done"
  /\ result' = "raised"

\* list(), lines 99-106: the header, then one line per group of a fresh catalog.
list ==
  /\ StartCall("list")
  /\ scans' = <<Scan("groups", 0, TRUE)>>
  /\ tasks' = <<>>
  /\ i' = 1
  /\ save' = FALSE
  /\ log' = <<Event("ListHeader", <<>>)>>
            \o [m \in 1..Len(getTasks(directory)) |->
                  Event("ListEntry", getTasks(directory)[m].path)]
  /\ pc' = "done"
  /\ result' = "returned"

(* ------------------------- install, _getDependencies ------------------ *)

\* A dependencies object of a config file: (key, version) pairs in key order.
DepMaps ==
  {m \in UNION {[1..len -> Packages \X Versions] : len \in 0..MaxDeps} :
     \A a, b \in 1..Len(m) : a # b => m[a][1] # m[b][1]}

\* What reading and parsing a config file can yield: the read throws, the
\* parse throws, or an object whose two fields (absent or present) are given.
Contents ==
  {[kind |-> "unreadable", dependencies |-> <<>>, devDependencies |-> <<>>],
   [kind |-> "malformed", dependencies |-> <<>>, devDependencies |-> <<>>]}
  \cup {[kind |-> "object", dependencies |-> d, devDependencies |-> v] :
          d \in DepMaps, v \in DepMaps}

Keys(d) == [m \in 1..Len(d) |-> d[m][1]]

\* An assignment that leaves a key alone once it is set (first scan wins).
SetKeyOnce(d, key, version) ==
  IF key \in Range(Keys(d)) THEN d ELSE Append(d, <<key, version>>)

\* dependencies[key] = version: an existing key keeps its place.
SetKey(d, key, version) ==
  IF key \in Range(Keys(d))
  THEN [m \in 1..Len(d) |-> IF d[m][1] = key THEN <<key, version>> ELSE d[m]]
  ELSE Append(d, <<key, version>>)

\* Lines 156-158 and 162-164: every pair of the object is copied, in key order.
RECURSIVE Merge(_, _)
Merge(d, m) ==
  IF m = <<>> THEN d
  ELSE Merge(SetKey(d, Head(m)[1], Head(m)[2]), Tail(m))

\* A try around the whole loop instead of inside it: the first failure ends
\* the aggregation.
readConfigEndAborts(d, c) ==
  IF c.kind = "object"
  THEN [raised |-> FALSE, report |-> <<>>,
        deps |-> Merge(Merge(d, c.dependencies), c.devDependencies)]
  ELSE [raised |-> TRUE, report |-> <<"ConfigFailed">>, deps |-> d]

\* The two merges in the other order: devDependencies first.
readConfigEndDevFirst(d, c) ==
  IF c.kind = "object"
  THEN [raised |-> FALSE, report |-> <<>>,
        deps |-> Merge(Merge(d, c.devDependencies), c.dependencies)]
  ELSE [raised |-> FALSE, report |-> <<"ConfigFailed">>, deps |-> d]

\* _getDependencies, lines 151-169: what one config entry does to the
\* aggregate. A failed read or parse is caught and printed.
readConfigEnd(d, c) ==
  IF c.kind = "object"
  THEN [raised |-> FALSE, report |-> <<>>,
        deps |-> Merge(Merge(d, c.dependencies), c.devDependencies)]
  ELSE [raised |-> FALSE, report |-> <<"ConfigFailed">>, deps |-> d]

\* install(save), lines 115-117.
install(sv) ==
  /\ StartCall("install")
  /\ scans' = <<>>
  /\ tasks' = <<>>
  /\ i' = 1
  /\ save' = sv
  /\ log' = <<Event("InstallHeader", <<>>)>>
  /\ pc' = "get_config"
  /\ result' = "none"

\* _getDependencies, lines 147-149: the config entries are scanned.
GetConfig ==
  /\ pc = "get_config"
  /\ cfgItems' = getConfig(directory)
  /\ k' = 1
  /\ deps' = <<>>
  /\ pc' = "read_config"
  /\ scans' = Append(scans, Scan("config", 0, TRUE))
  /\ UNCHANGED <<directory, config, fsVars, fsChanges, op, result, runVars, save, n,
                 procs, visits, reads, declared, lastDev, log>>

\* The file of an entry whose group directory is gone cannot be read.
Readable(entry) == entry.path[1] \in Range(dirs)

\* The versions a config file declares for a package, in either field.
Declares(c, p) ==
  {pair[2] : pair \in {q \in Range(c.dependencies) \cup Range(c.devDependencies) :
                         q[1] = p}}

\* The version a config file gives a package in its devDependencies, if any.
DevVersions(c, p) == {pair[2] : pair \in {q \in Range(c.devDependencies) : q[1] = p}}

\* _getDependencies, lines 150-170: one config entry is read, parsed and merged.
ReadConfig(c) ==
  /\ pc = "read_config"
  /\ k <= Len(cfgItems)
  /\ ~Readable(cfgItems[k]) => c.kind = "unreadable"
  /\ reads' = Append(reads, c.kind)
  /\ declared' = [p \in Packages |->
                    IF c.kind = "object" /\ Declares(c, p) # {}
                    THEN Append(declared[p], Declares(c, p))
                    ELSE declared[p]]
  /\ lastDev' = [p \in Packages |->
                   IF c.kind = "object" /\ Declares(c, p) # {}
                   THEN DevVersions(c, p)
                   ELSE lastDev[p]]
  /\ deps' = readConfigEnd(deps, c).deps
  /\ log' = log \o Reports(readConfigEnd(deps, c).report, cfgItems[k].pathAbs)
  /\ IF readConfigEnd(deps, c).raised
     THEN pc' = "done" /\ result' = "raised" /\ k' = k
     ELSE pc' = pc /\ result' = result /\ k' = k + 1
  /\ UNCHANGED <<directory, config, fsVars, fsChanges, op, runVars, save, cfgItems, n,
                 procs, visits, scans>>

\* _getDependencies, line 172: the aggregate is returned to install.
GetDependenciesDone ==
  /\ pc = "read_config"
  /\ k > Len(cfgItems)
  /\ pc' = "install_loop"
  /\ n' = 1
  /\ UNCHANGED <<directory, config, fsVars, fsChanges, op, result, runVars, save, cfgItems,
                 k, deps, histVars>>

\* install, line 121: the package manager command of one dependency.
NpmCommand(pair, sv) ==
  [prefix |-> "npm i ", path |-> <<pair[1], "@", pair[2], IF sv THEN " -D" ELSE "">>]

\* install, lines 119-126: the command is printed and its process spawned.
NpmStart ==
  /\ pc = "install_loop"
  /\ n <= Len(deps)
  /\ log' = Append(log, Event("InstallCommand", NpmCommand(deps[n], save).path))
  /\ procs' = Append(procs, [task |-> 0, member |-> n,
                             command |-> NpmCommand(deps[n], save),
                             status |-> "running"])
  /\ pc' = "wait_npm"
  /\ UNCHANGED <<directory, config, fsVars, fsChanges, op, result, runVars, installVars,
                 visits, reads, declared,
                 lastDev, scans>>

\* An execSync without the try: a failed command leaves install as an exception.
installEndUncaught(o) ==
  CASE o = "ok_output" -> [raised |-> FALSE, report |-> <<"InstallOutput">>]
    [] o = "ok_silent" -> [raised |-> FALSE, report |-> <<>>]
    [] o = "fail" -> [raised |-> TRUE, report |-> <<>>]

\* install, lines 128-134: what follows the end of the package manager.
installEnd(o) ==
  CASE o = "ok_output" -> [raised |-> FALSE, report |-> <<"InstallOutput">>]
    [] o = "ok_silent" -> [raised |-> FALSE, report |-> <<>>]
    [] o = "fail" -> [raised |-> FALSE, report |-> <<"InstallFailed">>]

\* A loop over the keys that is left at the first failed command.
NpmExitStops(o) ==
  /\ pc = "wait_npm"
  /\ procs' = SetLastStatus(procs, o)
  /\ log' = log \o Reports(installEnd(o).report, NpmCommand(deps[n], save).path)
  /\ pc' = "install_loop"
  /\ result' = result
  /\ n' = (IF o = "fail" THEN Len(deps) + 1 ELSE n + 1)
  /\ UNCHANGED <<directory, config, fsVars, fsChanges, op, runVars, save, cfgItems, k, deps,
                 visits, reads, declared,
                 lastDev, scans>>

\* execSync returns or throws: the package manager has ended.
NpmExit(o) ==
  /\ pc = "wait_npm"
  /\ procs' = SetLastStatus(procs, o)
  /\ log' = log \o Reports(installEnd(o).report, NpmCommand(deps[n], save).path)
  /\ IF installEnd(o).raised
     THEN pc' = "done" /\ result' = "raised" /\ n' = n
     ELSE pc' = "install_loop" /\ result' = result /\ n' = n + 1
  /\ UNCHANGED <<directory, config, fsVars, fsChanges, op, runVars, save, cfgItems, k, deps,
                 visits, reads, declared,
                 lastDev, scans>>

\* install, line 136: the loop has passed the last key; install returns.
InstallDone ==
  /\ pc = "install_loop"
  /\ n > Len(deps)
  /\ pc' = "done"
  /\ result' = "returned"
  /\ UNCHANGED <<directory, config, fsVars, fsChanges, op, runVars, installVars, histVars>>

(* ------------------------------ the caller ---------------------------- *)

\* The call is over and control is back with the caller, who may call again.
Return ==
  /\ pc = "done"
  /\ pc' = "idle"
  /\ op' = "none"
  /\ result' = "none"
  /\ fsChanges' = 0
  /\ tasks' = <<>>
  /\ i' = 1
  /\ item' = Null
  /\ items' = <<>>
  /\ j' = 1
  /\ save' = FALSE
  /\ cfgItems' = <<>>
  /\ k' = 1
  /\ deps' = <<>>
  /\ n' = 1
  /\ procs' = <<>>
  /\ visits' = <<>>
  /\ reads' = <<>>
  /\ declared' = [p \in Packages |-> <<>>]
  /\ lastDev' = [p \in Packages |-> {}]
  /\ scans' = <<>>
  /\ log' = <<>>
  /\ UNCHANGED <<directory, config, fsVars>>

(* --------------------------- the environment -------------------------- *)

Remove(s, x) == SelectSeq(s, LAMBDA y : y # x)

\* Another process removes a group directory while a call is under way.
FsRemoveGroup(g) ==
  /\ pc \notin {"idle", "done"}
  /\ fsChanges < MaxFsChanges
  /\ g \in Range(dirs)
  /\ dirs' = Remove(dirs, g)
  /\ files' = [files EXCEPT ![g] = <<>>]
  /\ fsChanges' = fsChanges + 1
  /\ UNCHANGED <<directory, config, op, pc, result, runVars, installVars, histVars>>

RECURSIVE SumLen(_, _)
SumLen(f, S) ==
  IF S = {} THEN 0
  ELSE LET g == CHOOSE x \in S : TRUE IN Len(f[g]) + SumLen(f, S \ {g})

FileCount(f) == SumLen(f, GroupNames)

\* The sequence s with x put in after its first pos elements.
InsertAt(s, pos, x) == SubSeq(s, 1, pos) \o <<x>> \o SubSeq(s, pos + 1, Len(s))

\* Another process creates a group directory with its files while a call is
\* under way. Where the new directory comes in the enumeration is up to the
\* file system.
FsCreateGroup(g, fl, pos) ==
  /\ pc \notin {"idle", "done"}
  /\ fsChanges < MaxFsChanges
  /\ g \notin Range(dirs)
  /\ pos \in 0..Len(dirs)
  /\ dirs' = InsertAt(dirs, pos, g)
  /\ files' = [files EXCEPT ![g] = fl]
  /\ FileCount(files') <= MaxFiles
  /\ fsChanges' = fsChanges + 1
  /\ UNCHANGED <<directory, config, op, pc, result, runVars, installVars, histVars>>

(* --------------------------- specification ---------------------------- *)

Init ==
  /\ \E c \in Configs : config = configured(c) /\ directory = constructor(c)
  /\ dirs \in SeqsNoDup(GroupNames, Cardinality(GroupNames))
  /\ files \in [GroupNames -> SeqsNoDup(FileNames, MaxFiles)]
  /\ \A g \in GroupNames \ Range(dirs) : files[g] = <<>>
  /\ FileCount(files) <= MaxFiles
  /\ fsChanges = 0
  /\ op = "none"
  /\ pc = "idle"
  /\ result = "none"
  /\ tasks = <<>>
  /\ i = 1
  /\ item = Null
  /\ items = <<>>
  /\ j = 1
  /\ save = FALSE
  /\ cfgItems = <<>>
  /\ k = 1
  /\ deps = <<>>
  /\ n = 1
  /\ procs = <<>>
  /\ visits = <<>>
  /\ reads = <<>>
  /\ declared = [p \in Packages |-> <<>>]
  /\ lastDev = [p \in Packages |-> {}]
  /\ scans = <<>>
  /\ log = <<>>

Next ==
  \/ \E ts \in Batches : run(ts)
  \/ \E t \in TaskNames : runTask(t)
  \/ Resolve
  \/ ExecTask
  \/ ExecItem
  \/ \E o \in Outcomes : ChildExit(o)
  \/ ExecTaskDone
  \/ list
  \/ \E sv \in BOOLEAN : install(sv)
  \/ GetConfig
  \/ \E c \in Contents : ReadConfig(c)
  \/ GetDependenciesDone
  \/ NpmStart
  \/ \E o \in Outcomes : NpmExit(o)
  \/ InstallDone
  \/ Return
  \/ \E g \in GroupNames : FsRemoveGroup(g)
  \/ \E g \in GroupNames, fl \in SeqsNoDup(FileNames, MaxFiles),
       pos \in 0..(Cardinality(GroupNames) - 1) :
       FsCreateGroup(g, fl, pos)

Spec == Init /\ [][Next]_vars

\* The runner is synchronous code: once inside _execTask it goes on until it
\* blocks in execSync. That every child process ends is the assumption under
\* which termination is claimed.
FairSpec ==
  /\ Spec
  /\ WF_vars(ExecTask)
  /\ WF_vars(ExecItem)
  /\ WF_vars(\E o \in Outcomes : ChildExit(o))

(* ---------------------------- observations ---------------------------- *)

Running == op \in {"run", "runTask"}

Executable(it) == it.type \in {"script", "binary"}

\* The indices of the executable members among the first upto entries.
ExecutableUpTo(its, upto) ==
  SelectSeq([m \in 1..upto |-> m], LAMBDA m : Executable(its[m]))

\* The processes spawned for the task at batch position t.
ProcsOf(t) == SelectSeq(procs, LAMBDA p : p.task = t)

MembersOf(ps) == [m \in 1..Len(ps) |-> ps[m].member]

\* The forEach of _execTask has passed the last member of the current task.
TaskOver == pc = "exec_loop" /\ j > Len(items)

\* The lines printed by runTask, one per resolved batch position.
TaskEvents == SelectSeq(log, LAMBDA e : e.ev \in {"TaskNotFound", "TaskStarted"})

Count(ev) == Len(SelectSeq(log, LAMBDA e : e.ev = ev))

Last(s) == s[Len(s)]

(* -------------------------------- C1 ---------------------------------- *)

\* C1: the processes spawned for a task are exactly the members of kind
\* script or binary of the member catalog scanned for it, in catalog order,
\* each for the absolute path of its member; a member of kind config or
\* other gets no process. Stated for every point of the loop: after the
\* first members have been passed, the processes are those of the executable
\* members among them.
C1_ExactlyExecutablesInOrder ==
  (Running /\ pc \in {"exec_loop", "wait_child"}) =>
    /\ MembersOf(ProcsOf(i))
         = ExecutableUpTo(items, IF pc = "wait_child" THEN j ELSE j - 1)
    /\ \A p \in Range(ProcsOf(i)) :
         /\ Executable(items[p.member])
         /\ p.command.path = items[p.member].pathAbs

\* A task with a skipped and an executed member has been run to its end.
C1_Witness ==
  /\ Running /\ TaskOver
  /\ Len(items) = 2
  /\ \E m \in 1..2 : ~Executable(items[m])
  /\ Len(ProcsOf(i)) = 1

(* -------------------------------- C2 ---------------------------------- *)

\* C2: a failing member process never ends the loop over the members: the
\* call is not abandoned, and every executable member that comes after a
\* failed one in the catalog and has been passed by the loop has a process.
C2_FailureIsolation ==
  Running =>
    /\ result # "raised"
    /\ pc \in {"exec_loop", "wait_child"} =>
         \A p \in Range(ProcsOf(i)) :
           p.status = "fail" =>
             \A m \in (p.member + 1)..(j - 1) :
               Executable(items[m]) => m \in Range(MembersOf(ProcsOf(i)))

\* Both members of a task failed, and both were run.
C2_Witness ==
  /\ Running /\ TaskOver
  /\ Len(ProcsOf(i)) = 2
  /\ \A p \in Range(ProcsOf(i)) : p.status = "fail"

(* -------------------------------- C3 ---------------------------------- *)

InCatalog(name) == \E m \in 1..Len(dirs) : <<dirs[m]>> = name

\* C3: the step that resolves a name compares it with the relative paths of
\* the group catalog as it is at that moment. Without an equal entry the
\* not-found line is printed, the invocation is over and no process is
\* spawned for it; with an equal entry that entry is taken, the task is
\* announced and no not-found line is printed. No process ever belongs to a
\* batch position that was reported not found.
C3_ResolveByExactMatch ==
  /\ [][(pc = "resolve" /\ log' # log) =>
          IF InCatalog(tasks[i])
          THEN /\ log' = Append(log, Event("TaskStarted", tasks[i]))
               /\ item'.path = tasks[i]
               /\ pc' = "scan_members"
          ELSE /\ log' = Append(log, Event("TaskNotFound", tasks[i]))
               /\ procs' = procs
               /\ i' = i + 1
               /\ pc' \in {"resolve", "done"}]_vars
  /\ [](Running =>
          \A p \in Range(procs) :
            /\ p.task \in 1..Len(TaskEvents)
            /\ TaskEvents[p.task].ev = "TaskStarted")

\* A batch in which one name was not found although the catalog has groups,
\* and another name was found and run.
C3_Witness ==
  /\ Running /\ pc = "done"
  /\ dirs # <<>>
  /\ \E e \in Range(log) : e.ev = "TaskNotFound"
  /\ procs # <<>>

(* -------------------------------- C4 ---------------------------------- *)

\* C4: the names of a batch are resolved one by one in the order given, each
\* once: the lines printed by runTask name the first names of the batch in
\* order, and all of them once run has returned. No member is passed twice,
\* the processes are ordered by batch position, and a position keeps being
\* attempted whatever happened to the positions before it.
C4_BatchInOrder ==
  Running =>
    /\ Len(TaskEvents) <= Len(tasks)
    /\ \A m \in 1..Len(TaskEvents) : TaskEvents[m].arg = tasks[m]
    /\ Len(TaskEvents) \in {i - 1, i}
    /\ pc = "done" => Len(TaskEvents) = Len(tasks)
    /\ NoDup(visits)
    /\ \A a, b \in 1..Len(procs) : a < b => procs[a].task <= procs[b].task

\* A batch of two: the first name was not found, the second was run.
C4_Witness ==
  /\ op = "run" /\ pc = "done"
  /\ Len(tasks) = 2
  /\ TaskEvents[1].ev = "TaskNotFound"
  /\ \E p \in Range(procs) : p.task = 2 /\ p.status = "fail"

(* -------------------------------- C5 ---------------------------------- *)

\* The members of the task at batch position t that _execItem was called for.
VisitsOf(t) ==
  LET mine == SelectSeq(visits, LAMBDA v : v[1] = t)
  IN [m \in 1..Len(mine) |-> mine[m][2]]

\* C5: when every child process ends, a task whose group was found reaches
\* the end of its member loop; there every member has been passed exactly
\* once and in catalog order, every executable member has exactly one
\* process, and each of these processes has ended, well or not.
C5_EveryMemberAttemptedOnce ==
  /\ []((Running /\ TaskOver) =>
         /\ VisitsOf(i) = [m \in 1..Len(items) |-> m]
         /\ MembersOf(ProcsOf(i)) = ExecutableUpTo(items, Len(items))
         /\ \A p \in Range(ProcsOf(i)) : p.status \in Outcomes)
  /\ ((Running /\ pc = "scan_members") ~> (Running /\ TaskOver))

\* A task of two executable members is over, the first one having failed.
C5_Witness ==
  /\ Running /\ TaskOver
  /\ Len(items) = 2
  /\ Len(ProcsOf(i)) = 2
  /\ ProcsOf(i)[1].status = "fail"
  /\ ProcsOf(i)[2].status = "ok_silent"

(* -------------------------------- C6 ---------------------------------- *)

\* C6: no process is spawned while another one is running: only the process
\* spawned last can be running, and then the runner is blocked waiting for
\* it. This covers the members of one group and the tasks of one batch.
C6_OneChildAtATime ==
  /\ \A m \in 1..Len(procs) : procs[m].status = "running" => m = Len(procs)
  /\ (\E m \in 1..Len(procs) : procs[m].status = "running")
       <=> pc \in {"wait_child", "wait_npm"}

\* The first process of the second task of a batch is running after the
\* process of the first task has ended.
C6_Witness ==
  /\ op = "run" /\ pc = "wait_child"
  /\ Len(procs) = 2
  /\ procs[1].task = 1 /\ procs[1].status \in Outcomes
  /\ procs[2].task = 2 /\ procs[2].status = "running"

(* -------------------------------- C7 ---------------------------------- *)

\* C7: the form of an invocation follows from the kind of the member: the
\* command is the absolute path of the member (task root, group, file),
\* behind the interpreter for a script such as setup.js and with nothing in
\* front of it for a binary such as the extensionless run.
C7_InvocationForm ==
  Running =>
    \A p \in Range(procs) :
      /\ p.command.path = directory \o tasks[p.task] \o <<Last(p.command.path)>>
      /\ getType(Last(p.command.path)) = "script" => p.command.prefix = "node "
      /\ getType(Last(p.command.path)) = "binary" => p.command.prefix = ""
      /\ Last(p.command.path) = "setup.js" => p.command.prefix = "node "
      /\ Last(p.command.path) = "run" => p.command.prefix = ""

\* A group with setup.js and run: one went through the interpreter, the
\* other was invoked directly.
C7_Witness ==
  /\ Running /\ TaskOver
  /\ \E p \in Range(procs) :
       Last(p.command.path) = "setup.js" /\ p.command.prefix = "node "
  /\ \E p \in Range(procs) :
       Last(p.command.path) = "run" /\ p.command.prefix = ""

(* -------------------------------- C8 ---------------------------------- *)

CountProcs(isTask, status) ==
  Len(SelectSeq(procs, LAMBDA p : (p.task > 0) = isTask /\ p.status = status))

\* Every failure of a child process, of a config read or parse and of a
\* package manager command has its printed report.
FailuresReported ==
  /\ Count("ItemFailed") = CountProcs(TRUE, "fail")
  /\ Count("InstallFailed") = CountProcs(FALSE, "fail")
  /\ Count("ConfigFailed") = Len(SelectSeq(reads, LAMBDA r : r # "object"))

\* The member scan of _execTask finds the group directory gone.
ScanMissesGroup ==
  /\ pc = "scan_members"
  /\ pc' = "exec_loop"
  /\ item.path[1] \notin Range(dirs)

VersionOf(d, p) == (CHOOSE pair \in Range(d) : pair[1] = p)[2]

\* C9: the aggregate holds exactly the packages declared by some entry that
\* was read and parsed, each once, and each with a version given by the last
\* entry, in scan order, that declares it.
C9_LastScanWins ==
  op = "install" =>
    /\ NoDup(Keys(deps))
    /\ \A p \in Packages :
         /\ p \in Range(Keys(deps)) <=> declared[p] # <<>>
         /\ declared[p] # <<>> => VersionOf(deps, p) \in Last(declared[p])

\* Two entries declare x: the first 2.0.0, the second 1.0.0; the aggregate
\* holds the lower version, that of the second.
C9_Witness ==
  /\ op = "install" /\ pc = "install_loop"
  /\ declared["x"] = <<{"2.0.0"}, {"1.0.0"}>>
  /\ VersionOf(deps, "x") = "1.0.0"

(* -------------------------------- C10 --------------------------------- *)

\* A config entry is read and the read or the parse fails.
ReadFails ==
  /\ pc = "read_config"
  /\ Len(reads') = Len(reads) + 1
  /\ Last(reads') # "object"

\* C10: a config entry whose read or parse fails is reported, leaves the
\* aggregate as the entries before it made it, and the loop goes on to the
\* next entry; when the aggregation is over every entry has been read, and
\* the aggregate holds the keys of every entry that was parsed.
C10_ConfigFailureIsolated ==
  /\ [][ReadFails =>
         /\ deps' = deps
         /\ log' = Append(log, Event("ConfigFailed", cfgItems[k].pathAbs))
         /\ k' = k + 1
         /\ pc' = "read_config"]_vars
  /\ []((op = "install" /\ pc \in {"install_loop", "wait_npm", "done"}) =>
         /\ Len(reads) = Len(cfgItems)
         /\ \A p \in Packages : declared[p] # <<>> => p \in Range(Keys(deps)))

\* The first of two entries could not be parsed; the second was merged.
C10_Witness ==
  /\ op = "install" /\ pc = "install_loop"
  /\ reads = <<"malformed", "object">>
  /\ deps # <<>>

(* -------------------------------- C11 --------------------------------- *)

\* The package-manager processes ended with the given status.
NpmEnded(status) == SelectSeq(procs, LAMBDA p : p.status = status)

\* C11: install spawns one package-manager process per key of the aggregated
\* dependency map, in key order and one after the other: when the loop stands
\* at key n, the processes are those of the keys before it (and of key n
\* while its process runs), each with the command of its key, and only the
\* last one may still be running. A failed command is printed once and the
\* loop goes on: install is never abandoned, and when it returns every key
\* has had its process.
C11_OneInvocationPerKey ==
  (op = "install" /\ pc \in {"install_loop", "wait_npm", "done"}) =>
    /\ Len(procs) = (IF pc = "wait_npm" THEN n ELSE n - 1)
    /\ \A m \in 1..Len(procs) :
         /\ procs[m].member = m
         /\ procs[m].command = NpmCommand(deps[m], save)
         /\ procs[m].status = "running" => (m = Len(procs) /\ pc = "wait_npm")
    /\ Count("InstallCommand") = Len(procs)
    /\ Count("InstallFailed") = Len(NpmEnded("fail"))
    /\ result # "raised"
    /\ pc = "done" => (result = "returned" /\ Len(procs) = Len(deps))

\* install has returned after two commands, the first of which failed.
C11_Witness ==
  /\ op = "install" /\ pc = "done"
  /\ Len(deps) = 2
  /\ Len(procs) = 2
  /\ procs[1].status = "fail"

(* -------------------------------- C12 --------------------------------- *)

\* The kind of a member file by the extension sets the runner was
\* constructed with.
ConfiguredType(f) ==
  IF extname(f) \in config.extBinary THEN "binary"
  ELSE IF extname(f) \in config.extScript THEN "script"
  ELSE IF extname(f) \in config.extConfig THEN "config"
  ELSE "other"

\* C12: every member of a scanned group has the kind its extension has in
\* the extension sets of the runner's configuration, and the members passed
\* by the loop that have a process are those whose configured kind is script
\* or binary.
C12_AsClaimed ==
  (Running /\ pc \in {"exec_loop", "wait_child"}) =>
    /\ \A m \in 1..Len(items) : items[m].type = ConfiguredType(Last(items[m].path))
    /\ \A m \in 1..(IF pc = "wait_child" THEN j ELSE j - 1) :
         m \in Range(MembersOf(ProcsOf(i)))
           <=> ConfiguredType(Last(items[m].path)) \in {"script", "binary"}

(* -------------------------------- C13 --------------------------------- *)

\* The task root holds no group directory, and has held none since the
\* current call began.
EmptyRoot == dirs = <<>> /\ fsChanges = 0 /\ ~Idle

\* C13: over a task root without group directories the group catalog is
\* empty; list prints its header and no entry and returns; every name
\* resolved by run or runTask is reported not found, nothing else is printed
\* for it, no process is spawned and the call returns.
C13_EmptyRoot ==
  EmptyRoot =>
    /\ getTasks(directory) = <<>>
    /\ result # "raised"
    /\ pc = "done" => result = "returned"
    /\ op = "list" => (log = <<Event("ListHeader", <<>>)>> /\ procs = <<>>)
    /\ (Running /\ tasks # <<>>) =>
         /\ procs = <<>>
         /\ log = [m \in 1..(i - 1) |-> Event("TaskNotFound", tasks[m])]
         /\ pc = "done" => i = Len(tasks) + 1

\* A batch of two names has been run over an empty task root.
C13_Witness ==
  /\ EmptyRoot
  /\ op = "run" /\ pc = "done"
  /\ Len(tasks) = 2
  /\ Count("TaskNotFound") = 2

(* -------------------------------- C14 --------------------------------- *)

\* The paths named by the failure lines of the members, in print order.
FailureLines ==
  LET lines == SelectSeq(log, LAMBDA e : e.ev = "ItemFailed")
  IN  [m \in 1..Len(lines) |-> lines[m].arg]

\* The paths of the member processes that failed, in spawn order.
FailedMembers ==
  LET failed == SelectSeq(procs, LAMBDA p : p.status = "fail")
  IN  [m \in 1..Len(failed) |-> failed[m].command.path]

\* C14: the failure lines are those of the failed member processes, one
\* line per failed process and in the same order; the processes that
\* succeeded or still run account for no line, and no member of kind config
\* or other is ever named by one.
C14_FailureReportsExact ==
  Running =>
    /\ FailureLines = FailedMembers
    /\ Count("ItemFailed") = Len(procs) - Len(SelectSeq(procs, LAMBDA p : p.status # "fail"))
    /\ \A m \in 1..Len(FailureLines) :
         getType(Last(FailureLines[m])) \in {"script", "binary"}

\* A group of a failing and a succeeding member has been run: one failure
\* line, and it names the failed one.
C14_Witness ==
  /\ Running /\ TaskOver
  /\ Len(procs) = 2
  /\ procs[1].status = "fail"
  /\ procs[2].status = "ok_output"
  /\ FailureLines = <<procs[1].command.path>>

(* -------------------------------- C15 --------------------------------- *)

\* The file names of the entries of a catalog.
NamesOf(entries) == [m \in 1..Len(entries) |-> Last(entries[m].path)]

\* The config files of the tree as it is, group by group.
RECURSIVE ConfigFilesNow(_)
ConfigFilesNow(groups) ==
  IF groups = <<>> THEN <<>>
  ELSE [m \in 1..Len(SelectSeq(files[Head(groups)], LAMBDA f : extname(f) = "json")) |->
          <<Head(groups), SelectSeq(files[Head(groups)], LAMBDA f : extname(f) = "json")[m]>>]
       \o ConfigFilesNow(Tail(groups))

\* C15: nothing scanned is kept from one use to the next: each step that
\* needs a catalog gets it from the directory tree as it is when the step is
\* taken. A name of a batch is found exactly when its group directory exists
\* at the moment the name is resolved, whatever the tree was when the batch
\* began; the members run are the files the group has when its members are
\* scanned; list prints the groups there are when it is called; install
\* reads the config files there are when it scans for them.
C15_NoCatalogCached ==
  [][ /\ (pc = "resolve" /\ log' # log) =>
           (Last(log').ev = "TaskStarted" <=> InCatalog(tasks[i]))
      /\ (pc = "scan_members" /\ pc' = "exec_loop") =>
           NamesOf(items') = (IF item.path[1] \in Range(dirs)
                              THEN files[item.path[1]] ELSE <<>>)
      /\ (Idle /\ op' = "list") =>
           log' = <<Event("ListHeader", <<>>)>>
                  \o [m \in 1..Len(dirs) |-> Event("ListEntry", <<dirs[m]>>)]
      /\ (pc = "get_config" /\ pc' = "read_config") =>
           [m \in 1..Len(cfgItems') |-> cfgItems'[m].path] = ConfigFilesNow(dirs)
    ]_vars

\* The same name twice in a batch: the first time its group was there and a
\* member of it was run, the second time the group was gone.
C15_Witness ==
  /\ op = "run" /\ pc = "done"
  /\ Len(tasks) = 2 /\ tasks[1] = tasks[2]
  /\ Len(ProcsOf(1)) = 1
  /\ TaskEvents = <<Event("TaskStarted", tasks[1]), Event("TaskNotFound", tasks[2])>>

\* The same name twice in a batch: not found at first, then found and run,
\* its group having been created in between.
CreatedGroupFound ==
  /\ op = "run" /\ pc = "done"
  /\ Len(tasks) = 2 /\ tasks[1] = tasks[2]
  /\ Len(ProcsOf(2)) = 1
  /\ TaskEvents = <<Event("TaskNotFound", tasks[1]), Event("TaskStarted", tasks[2])>>

(* -------------------------------- C16 --------------------------------- *)

\* The lines printed for the members, in print order.
ItemEvents ==
  SelectSeq(log, LAMBDA e : e.ev \in {"ItemStarted", "ItemOutput", "ItemFailed"})

\* The lines one member process accounts for: its start line, then the line
\* of its outcome if it has one.
LinesOf(p) ==
  <<Event("ItemStarted", p.command.path)>>
  \o (CASE p.status = "fail" -> <<Event("ItemFailed", p.command.path)>>
        [] p.status = "ok_output" -> <<Event("ItemOutput", p.command.path)>>
        [] OTHER -> <<>>)

RECURSIVE LinesOfAll(_)
LinesOfAll(ps) ==
  IF ps = <<>> THEN <<>> ELSE LinesOf(Head(ps)) \o LinesOfAll(Tail(ps))

\* C16: the lines printed for the members are, process by process in spawn
\* order, the start line of the member followed by at most one outcome line:
\* the failure line when the process failed, the output line when it
\* succeeded with output, and none when it succeeded silently or still runs.
\* So the start line of a member comes before its outcome line, a member
\* never has both a failure and an output line, and every line of a member
\* comes before the start line of the next one.
C16_ItemEventOrder ==
  Running => ItemEvents = LinesOfAll(procs)

\* Two members of a group have been run, the first with output, the second
\* failing: four lines, in this order.
C16_Witness ==
  /\ Running /\ TaskOver
  /\ Len(procs) = 2
  /\ ItemEvents = << Event("ItemStarted", procs[1].command.path),
                     Event("ItemOutput", procs[1].command.path),
                     Event("ItemStarted", procs[2].command.path),
                     Event("ItemFailed", procs[2].command.path) >>

(* -------------------------------- C17 --------------------------------- *)

\* C17: the task root is the root directory joined with the tasks directory
\* of the configuration the runner was constructed with, and no step of run,
\* runTask, list or install, however the call ends, assigns it again.
C17_TaskRootFixed ==
  /\ [](directory = <<config.rootDir, config.tasksDir>>)
  /\ [][directory' = directory]_vars

\* A runner constructed with its own root has run a group whose member
\* failed, and has returned with its task root as constructed.
C17_Witness ==
  /\ Running /\ pc = "done"
  /\ \E p \in Range(procs) : p.status = "fail"
  /\ config.rootDir = "srv"
  /\ directory = <<"srv", "jobs">>

(* -------------------------------- C18 --------------------------------- *)

ScansOf(kind) == SelectSeq(scans, LAMBDA s : s.kind = kind)

\* C18: runTask scans twice: the group catalog once for every name it
\* resolves, and the members once for every name it found. When the second
\* scan no longer meets the directory of the group the first one found, the
\* member list is empty: the task has been announced as running and stays
\* so, no member is visited and no process is spawned for it, no not-found
\* line is printed for it, and the call goes on to return normally.
C18_GroupGoneBetweenScans ==
  Running =>
    /\ Len(ScansOf("groups")) = Len(TaskEvents)
    /\ Len(ScansOf("members"))
         = Count("TaskStarted") - (IF pc = "scan_members" THEN 1 ELSE 0)
    /\ \A s \in Range(ScansOf("members")) :
         ~s.found =>
           /\ TaskEvents[s.task] = Event("TaskStarted", tasks[s.task])
           /\ ProcsOf(s.task) = <<>>
           /\ VisitsOf(s.task) = <<>>
           /\ (s.task = i /\ pc = "exec_loop") => items = <<>>
    /\ result # "raised"
    /\ pc = "done" => result = "returned"

\* runTask has returned for a group that was there when the name was
\* resolved and gone when its members were scanned.
C18_Witness ==
  /\ op = "runTask" /\ pc = "done" /\ result = "returned"
  /\ scans = <<Scan("groups", 1, TRUE), Scan("members", 1, FALSE)>>
  /\ log = <<Event("TaskStarted", tasks[1])>>
  /\ procs = <<>>

(* -------------------------------- C19 --------------------------------- *)

\* C19: inside one config entry dependencies is merged before
\* devDependencies: a package the last entry declaring it gives in
\* devDependencies has the devDependencies version in the aggregate, also
\* when the same entry gives it another version in dependencies.
C19_DevDependenciesWin ==
  op = "install" =>
    \A p \in Packages :
      lastDev[p] # {} =>
        /\ p \in Range(Keys(deps))
        /\ VersionOf(deps, p) \in lastDev[p]

\* One entry gives x as 2.0.0 in dependencies and as 1.0.0 in
\* devDependencies: the aggregate holds 1.0.0.
C19_Witness ==
  /\ op = "install" /\ pc = "install_loop"
  /\ declared["x"] = <<{"1.0.0", "2.0.0"}>>
  /\ lastDev["x"] = {"1.0.0"}
  /\ VersionOf(deps, "x") = "1.0.0"

====
